---- MODULE Spec2Model ----
(***************************************************************************)
(* Model of pkg/loadbalancers/address_manager.go: the addressManager that  *)
(* holds, validates, re-creates and releases one named regional address    *)
(* through a remote CloudAddressService.  Every remote call is one atomic  *)
(* step, so several manager instances and a user interleave at the         *)
(* granularity of the remote API.                                          *)
(***************************************************************************)
EXTENDS Naturals, Sequences, FiniteSets, TLC

\* ---------------------------------------------------------------- bounds
MaxOps == 3        \* operations the manager may start in a run
MaxRaceOps == 1    \* operations each of two concurrent replicas may start
MaxUserActs == 1   \* mutations of the store by actors other than the managers
MaxFaults == 1     \* remote calls answered with an error the store does not dictate

\* ------------------------------------------------------------ the domain
Managers == {1, 2}               \* manager instances, same name and region
name == "lb"                     \* am.name
userName == "user"               \* a name no manager is configured with
Names == {name, userName}
region == "r1"                   \* am.region
IPs == {"ip1", "ip2"}            \* address literals of the region
TargetIPs == IPs \cup {""}       \* am.targetIP; "" asks for any address

SchemeInternal == "INTERNAL"
SchemeExternal == "EXTERNAL"
Schemes == {SchemeInternal, SchemeExternal}

NetworkTierPremium == "Premium"
NetworkTierStandard == "Standard"
NetworkTiers == {NetworkTierPremium, NetworkTierStandard}

\* cloud.NetworkTier.ToGCEValue: the upper-case value the remote API uses
ToGCEValue(t) == IF t = NetworkTierPremium THEN "PREMIUM" ELSE "STANDARD"
GCETiers == {"PREMIUM", "STANDARD"}

IPAddrUndefined == "Undefined"
IPAddrManaged == "Managed"
IPAddrUnmanaged == "Unmanaged"

\* compute.Address; NilAddr is the nil pointer
NilAddr == [name |-> "", address |-> "", addressType |-> "", networkTier |-> ""]
Addresses == [name : Names, address : IPs, addressType : Schemes, networkTier : GCETiers]

\* the desired specification carried by an addressManager
AddressManagers == [targetIP : TargetIPs, addressType : Schemes, networkTier : NetworkTiers]

\* errors: kind is the class the utils predicates test, inner what it wraps
NilErr == [kind |-> "nil", inner |-> ""]
Err(k) == [kind |-> k, inner |-> ""]
Wrap(k, i) == [kind |-> k, inner |-> i]

\* utils.IsNotFoundError
IsNotFoundError(res) == res = "notfound"

\* ----------------------------------------------- the remote address service
\* The store of one region: name -> record, NilAddr when the name is free.
Stores == {s \in [Names -> Addresses \cup {NilAddr}] :
             /\ \A n \in Names : s[n] # NilAddr => s[n].name = n
             /\ s[name] # NilAddr /\ s[userName] # NilAddr
                  => s[name].address # s[userName].address}

HolderOf(s, ip) == {n \in Names : s[n] # NilAddr /\ s[n].address = ip}
FreeIPs(s) == {ip \in IPs : HolderOf(s, ip) = {}}

\* svc.GetRegionAddress(name, region)
GetRegionAddress(s, n, r) ==
    IF r = region /\ s[n] # NilAddr
    THEN [res |-> "ok", rec |-> s[n]]
    ELSE [res |-> "notfound", rec |-> NilAddr]

\* svc.GetRegionAddressByIP(region, ip)
GetRegionAddressByIP(s, r, ip) ==
    IF r = region /\ HolderOf(s, ip) # {}
    THEN [res |-> "ok", rec |-> s[CHOOSE n \in HolderOf(s, ip) : TRUE]]
    ELSE [res |-> "notfound", rec |-> NilAddr]

\* svc.DeleteRegionAddress(name, region): the possible answers and stores.
\* A region that is not the store's region holds no record: the service
\* answers not-found or rejects the request.
DeleteRegionAddress(s, n, r) ==
    IF r # region
    THEN {[res |-> "notfound", store |-> s], [res |-> "other", store |-> s]}
    ELSE IF s[n] = NilAddr
    THEN {[res |-> "notfound", store |-> s]}
    ELSE {[res |-> "ok", store |-> [s EXCEPT ![n] = NilAddr]]}

\* svc.ReserveRegionAddress(newAddr, region): a taken name is a conflict, a
\* taken IP is a conflict (held by an internal address) or a bad request
\* (held by an external one); an unset tier gets the service's default and
\* an unset address is assigned from the free ones.
DefaultGCETier == "PREMIUM"
Stored(a, ip) ==
    [name |-> a.name, address |-> ip, addressType |-> a.addressType,
     networkTier |-> IF a.networkTier = "" THEN DefaultGCETier ELSE a.networkTier]
ReserveRegionAddress(s, a, r) ==
    IF s[a.name] # NilAddr
    THEN {[res |-> "conflict", store |-> s]}
    ELSE IF a.address # "" /\ HolderOf(s, a.address) # {}
    THEN LET h == s[CHOOSE n \in HolderOf(s, a.address) : TRUE]
         IN {[res |-> IF h.addressType = SchemeInternal THEN "conflict" ELSE "badrequest",
              store |-> s]}
    ELSE IF a.address # ""
    THEN {[res |-> "ok", store |-> [s EXCEPT ![a.name] = Stored(a, a.address)]]}
    ELSE IF FreeIPs(s) = {}
    THEN {[res |-> "other", store |-> s]}
    ELSE {[res |-> "ok", store |-> [s EXCEPT ![a.name] = Stored(a, ip)]] : ip \in FreeIPs(s)}

\* ------------------------------------------------------------------ state
VARIABLES
    store,       \* the remote store of the region
    am,          \* am[m]: targetIP, addressType, networkTier of manager m
    tryRelease,  \* am.tryRelease
    pc,          \* position of manager m inside its current operation
    op,          \* the operation manager m runs or ran last
    addr,        \* local addr of the running operation
    reserveErr,  \* local reserveErr of ensureAddressReservation
    ret,         \* what the last finished operation returned
    calls,       \* remote calls issued by the current/last operation of m
    ops,         \* operations manager m may still start
    userActs, faults,  \* budget counters
    unmanagedSeen,  \* history: a HoldAddress of m has returned IPAddrUnmanaged
    base,        \* history: what the last HoldAddress of m returned, if it
                 \* succeeded and nothing has interfered since it started;
                 \* Pending during a first undisturbed one, NoBase otherwise
    vrec, verr   \* input record and result of a validateAddress call

vars == <<store, am, tryRelease, pc, op, addr, reserveErr, ret, calls,
          ops, userActs, faults, unmanagedSeen, base, vrec, verr>>

Call(verb, n, r, ip, res, a) ==
    [verb |-> verb, name |-> n, region |-> r, ip |-> ip, res |-> res, address |-> a]

NoRet == [address |-> "", type |-> "", err |-> NilErr]
NoBase == [address |-> "", type |-> "none", err |-> NilErr]
Pending == [address |-> "", type |-> "pending", err |-> NilErr]

\* --------------------------------------------- the manager's decision logic
\* What a step decides: the next position ("idle" = the operation returns
\* address, type, err) and whether am.tryRelease is cleared.
Return(a, t, e) == [next |-> "idle", address |-> a, type |-> t, err |-> e, unown |-> FALSE]
ReturnErr(e) == [next |-> "idle", address |-> "", type |-> "", err |-> e, unown |-> FALSE]
Goto(l) == [next |-> l, address |-> "", type |-> "", err |-> NilErr, unown |-> FALSE]

\* a validation that does not look at the network tier
validateAddress_NoTier(a, rec) ==
    IF a.targetIP # "" /\ a.targetIP # rec.address THEN Err("IPMismatch")
    ELSE IF rec.addressType # a.addressType THEN Err("AddressTypeMismatch")
    ELSE NilErr

\* a manager that accepts a record whatever address it holds
validateAddress_NoIP(a, rec) ==
    IF rec.addressType # a.addressType THEN Err("AddressTypeMismatch")
    ELSE IF rec.networkTier # ToGCEValue(a.networkTier) THEN Err("NetworkTierErr")
    ELSE NilErr

\* am.validateAddress(addr)
validateAddress(a, rec) ==
    IF a.targetIP # "" /\ a.targetIP # rec.address THEN Err("IPMismatch")
    ELSE IF rec.addressType # a.addressType THEN Err("AddressTypeMismatch")
    ELSE IF rec.networkTier # ToGCEValue(a.networkTier) THEN Err("NetworkTierErr")
    ELSE NilErr

\* a manager that takes every address for its own
isManagedAddress_Any(rec) == TRUE

\* am.isManagedAddress(addr)
isManagedAddress(rec) == rec.name = name

\* a manager that deletes whatever it finds under its name, valid or not
HoldAddressGet_NoValidation(a, g) ==
    IF g.res # "ok" /\ ~IsNotFoundError(g.res)
    THEN Return("", IPAddrUndefined, Err(g.res))
    ELSE IF g.rec # NilAddr
    THEN Goto("hold_delete")
    ELSE Goto("reserve")

\* HoldAddress, after svc.GetRegionAddress(am.name, am.region) answered g
HoldAddressGet(a, g) ==
    IF g.res # "ok" /\ ~IsNotFoundError(g.res)
    THEN Return("", IPAddrUndefined, Err(g.res))
    ELSE IF g.rec # NilAddr
    THEN IF validateAddress(a, g.rec) = NilErr
         THEN Return(g.rec.address, IPAddrManaged, NilErr)
         ELSE Goto("hold_delete")
    ELSE Goto("reserve")

\* a manager that ignores every failure of its delete
HoldAddressDelete_IgnoresErrors(res) == Goto("reserve")

\* a manager that gives up when the record it wanted to delete is gone
HoldAddressDelete_AbortsOnNotFound(res) ==
    IF res # "ok"
    THEN Return("", IPAddrUndefined, Err(res))
    ELSE Goto("reserve")

\* HoldAddress, after svc.DeleteRegionAddress(addr.Name, am.region) answered res
HoldAddressDelete(res) ==
    IF res # "ok" /\ ~IsNotFoundError(res)
    THEN Return("", IPAddrUndefined, Err(res))
    ELSE Goto("reserve")

\* ensureAddressReservation: the record it asks the service to reserve
newAddr(a) ==
    [name |-> name, address |-> a.targetIP, addressType |-> a.addressType,
     networkTier |-> IF a.addressType = SchemeExternal
                     THEN ToGCEValue(a.networkTier) ELSE ""]

\* a manager that returns the requested address without the follow-up lookup
ensureAddressReservationReserve_NoRefetch(a, res) ==
    IF res = "ok"
    THEN Return(newAddr(a).address, IPAddrManaged, NilErr)
    ELSE IF res = "tiermismatch"
    THEN Return("", IPAddrUndefined, Err("NetworkTierErr"))
    ELSE IF res # "conflict" /\ res # "badrequest"
    THEN Return("", IPAddrUndefined, Err(res))
    ELSE IF a.targetIP = ""
    THEN Return("", IPAddrUndefined, Wrap("ReserveNoIP", res))
    ELSE Goto("getbyip")

\* a manager that treats a network tier mismatch of the reserve as a conflict
ensureAddressReservationReserve_TierAsConflict(a, res) ==
    IF res = "ok"
    THEN IF newAddr(a).address # ""
         THEN Return(newAddr(a).address, IPAddrManaged, NilErr)
         ELSE Goto("refetch")
    ELSE IF res # "conflict" /\ res # "badrequest" /\ res # "tiermismatch"
    THEN Return("", IPAddrUndefined, Err(res))
    ELSE IF a.targetIP = ""
    THEN Return("", IPAddrUndefined, Wrap("ReserveNoIP", res))
    ELSE Goto("getbyip")

\* ensureAddressReservation, after svc.ReserveRegionAddress answered res
ensureAddressReservationReserve(a, res) ==
    IF res = "ok"
    THEN IF newAddr(a).address # ""
         THEN Return(newAddr(a).address, IPAddrManaged, NilErr)
         ELSE Goto("refetch")
    ELSE IF res = "tiermismatch"
    THEN Return("", IPAddrUndefined, Err("NetworkTierErr"))
    ELSE IF res # "conflict" /\ res # "badrequest"
    THEN Return("", IPAddrUndefined, Err(res))
    ELSE IF a.targetIP = ""
    THEN Return("", IPAddrUndefined, Wrap("ReserveNoIP", res))
    ELSE Goto("getbyip")

\* a manager that reports an auto-assigned reservation as held even when the
\* follow-up lookup failed
ensureAddressReservationGet_IgnoresError(g) ==
    IF g.res # "ok"
    THEN Return("", IPAddrManaged, NilErr)
    ELSE Return(g.rec.address, IPAddrManaged, NilErr)

\* ensureAddressReservation, after the svc.GetRegionAddress that follows an
\* auto-assigned reservation answered g
ensureAddressReservationGet(g) ==
    IF g.res # "ok"
    THEN Return("", IPAddrUndefined, Err(g.res))
    ELSE Return(g.rec.address, IPAddrManaged, NilErr)

\* a manager that hands back a user's address without clearing tryRelease
ensureAddressReservationByIP_KeepsRelease(a, g) ==
    IF g.res # "ok"
    THEN Return("", IPAddrUndefined, Wrap("GetByIPFailed", g.res))
    ELSE IF validateAddress(a, g.rec) # NilErr
    THEN Return("", IPAddrUndefined, Wrap("ValidationFailed", validateAddress(a, g.rec).kind))
    ELSE IF isManagedAddress(g.rec)
    THEN Return(g.rec.address, IPAddrManaged, NilErr)
    ELSE Return(g.rec.address, IPAddrUnmanaged, NilErr)

\* a manager that takes every valid record found by IP for a user's address
ensureAddressReservationByIP_NoOwnerCheck(a, g) ==
    IF g.res # "ok"
    THEN Return("", IPAddrUndefined, Wrap("GetByIPFailed", g.res))
    ELSE IF validateAddress(a, g.rec) # NilErr
    THEN Return("", IPAddrUndefined, Wrap("ValidationFailed", validateAddress(a, g.rec).kind))
    ELSE [Return(g.rec.address, IPAddrUnmanaged, NilErr) EXCEPT !.unown = TRUE]

\* a manager that does not validate the record found by IP
ensureAddressReservationByIP_NoValidation(a, g) ==
    IF g.res # "ok"
    THEN Return("", IPAddrUndefined, Wrap("GetByIPFailed", g.res))
    ELSE IF isManagedAddress(g.rec)
    THEN Return(g.rec.address, IPAddrManaged, NilErr)
    ELSE [Return(g.rec.address, IPAddrUnmanaged, NilErr) EXCEPT !.unown = TRUE]

\* a manager that gives up its release also for a record of its own name
ensureAddressReservationByIP_UnownsManaged(a, g) ==
    IF g.res # "ok"
    THEN Return("", IPAddrUndefined, Wrap("GetByIPFailed", g.res))
    ELSE IF validateAddress(a, g.rec) # NilErr
    THEN Return("", IPAddrUndefined, Wrap("ValidationFailed", validateAddress(a, g.rec).kind))
    ELSE IF isManagedAddress(g.rec)
    THEN [Return(g.rec.address, IPAddrManaged, NilErr) EXCEPT !.unown = TRUE]
    ELSE [Return(g.rec.address, IPAddrUnmanaged, NilErr) EXCEPT !.unown = TRUE]

\* ensureAddressReservation, after svc.GetRegionAddressByIP answered g
ensureAddressReservationByIP(a, g) ==
    IF g.res # "ok"
    THEN Return("", IPAddrUndefined, Wrap("GetByIPFailed", g.res))
    ELSE IF validateAddress(a, g.rec) # NilErr
    THEN Return("", IPAddrUndefined, Wrap("ValidationFailed", validateAddress(a, g.rec).kind))
    ELSE IF isManagedAddress(g.rec)
    THEN Return(g.rec.address, IPAddrManaged, NilErr)
    ELSE [Return(g.rec.address, IPAddrUnmanaged, NilErr) EXCEPT !.unown = TRUE]

\* a manager that reports a not-found delete as a failure of the release
ReleaseAddressDelete_SurfacesNotFound(res) ==
    IF res # "ok" THEN ReturnErr(Err(res)) ELSE ReturnErr(NilErr)

\* a manager that reports every release as done, whatever the delete answered
ReleaseAddressDelete_SwallowsAll(res) == ReturnErr(NilErr)

\* ReleaseAddress, after svc.DeleteRegionAddress(am.name, am.region) answered res
ReleaseAddressDelete(res) ==
    IF res # "ok"
    THEN IF IsNotFoundError(res) THEN ReturnErr(NilErr) ELSE ReturnErr(Err(res))
    ELSE ReturnErr(NilErr)

\* TearDownAddressIPIfNetworkTierMismatch, after svc.GetRegionAddressByIP answered g
TearDownGet(a, g) ==
    IF IsNotFoundError(g.res) THEN ReturnErr(NilErr)
    ELSE IF g.res # "ok" THEN ReturnErr(Err(g.res))
    ELSE IF g.rec # NilAddr /\ g.rec.networkTier # ToGCEValue(a.networkTier)
    THEN IF ~isManagedAddress(g.rec)
         THEN ReturnErr(Err("NetworkTierErr"))
         ELSE Goto("teardown_delete")
    ELSE ReturnErr(NilErr)

\* TearDownAddressIPIfNetworkTierMismatch: the region argument of its delete
TearDownDeleteRegion(a) == a.targetIP

\* a manager that returns the failure of the delete of its mismatching record
TearDownDelete_ReturnsError(res) ==
    IF res # "ok" /\ ~IsNotFoundError(res) THEN ReturnErr(Err(res)) ELSE ReturnErr(NilErr)

\* TearDownAddressIPIfNetworkTierMismatch, after its delete answered res
TearDownDelete(res) == ReturnErr(NilErr)

\* ---------------------------------------------------------------- actions
\* answers of the service: what the store dictates, or an injected error
Injected(kinds) == IF faults < MaxFaults THEN kinds ELSE {}
GetAnswers(g) ==
    {[res |-> g.res, rec |-> g.rec, fault |-> FALSE]}
    \cup {[res |-> k, rec |-> NilAddr, fault |-> TRUE] : k \in Injected({"other"})}
MutAnswers(S, kinds) ==
    {[res |-> o.res, store |-> o.store, fault |-> FALSE] : o \in S}
    \cup {[res |-> k, store |-> store, fault |-> TRUE] : k \in Injected(kinds)}

\* Manager m, running operation o (starting it when start holds), got answer
\* ans to its remote call, which left the store as s2 and is logged as the
\* call list c; it takes decision d, keeping rec and rerr as its locals.
Step(m, o, start, d, ans, s2, c, rec, rerr) ==
    /\ store' = s2
    /\ op' = [op EXCEPT ![m] = o]
    /\ ops' = IF start THEN [ops EXCEPT ![m] = @ - 1] ELSE ops
    /\ pc' = [pc EXCEPT ![m] = d.next]
    /\ ret' = IF d.next = "idle"
              THEN [ret EXCEPT ![m] = [address |-> d.address, type |-> d.type, err |-> d.err]]
              ELSE ret
    /\ tryRelease' = IF d.unown THEN [tryRelease EXCEPT ![m] = FALSE] ELSE tryRelease
    /\ calls' = [calls EXCEPT ![m] = c]
    /\ addr' = [addr EXCEPT ![m] = IF d.next = "idle" THEN NilAddr ELSE rec]
    /\ reserveErr' = [reserveErr EXCEPT ![m] = IF d.next = "idle" THEN "" ELSE rerr]
    /\ faults' = IF ans.fault THEN faults + 1 ELSE faults
    /\ unmanagedSeen' = IF d.next = "idle" /\ d.type = IPAddrUnmanaged
                        THEN [unmanagedSeen EXCEPT ![m] = TRUE] ELSE unmanagedSeen
    /\ base' = [x \in Managers |->
                 IF x # m THEN (IF s2 # store THEN NoBase ELSE base[x])
                 ELSE IF ans.fault \/ o # "HoldAddress" THEN NoBase
                 ELSE LET cur == IF start /\ base[m] = NoBase THEN Pending ELSE base[m]
                      IN IF d.next # "idle" THEN cur
                         ELSE IF d.err = NilErr /\ cur # NoBase
                         THEN [address |-> d.address, type |-> d.type, err |-> d.err]
                         ELSE NoBase]
    /\ UNCHANGED <<am, userActs, vrec, verr>>

NoAnswer == [res |-> "", fault |-> FALSE]
CanStart(m) == pc[m] = "idle" /\ ops[m] > 0

\* HoldAddress: the call and its svc.GetRegionAddress(am.name, am.region)
HoldAddress(m) ==
    /\ CanStart(m)
    /\ \E o \in GetAnswers(GetRegionAddress(store, name, region)) :
         Step(m, "HoldAddress", TRUE, HoldAddressGet(am[m], o), o, store,
              <<Call("get", name, region, "", o.res, o.rec.address)>>, o.rec, "")

\* HoldAddress: svc.DeleteRegionAddress(addr.Name, am.region)
HoldDelete(m) ==
    /\ pc[m] = "hold_delete"
    /\ \E o \in MutAnswers(DeleteRegionAddress(store, addr[m].name, region), {"other"}) :
         Step(m, "HoldAddress", FALSE, HoldAddressDelete(o.res), o, o.store,
              Append(calls[m], Call("delete", addr[m].name, region, "", o.res, "")),
              NilAddr, "")

\* ensureAddressReservation: svc.ReserveRegionAddress(newAddr, am.region)
Reserve(m) ==
    /\ pc[m] = "reserve"
    /\ \E o \in MutAnswers(ReserveRegionAddress(store, newAddr(am[m]), region),
                           {"other", "tiermismatch", "badrequest"}) :
         Step(m, "HoldAddress", FALSE, ensureAddressReservationReserve(am[m], o.res), o, o.store,
              Append(calls[m], Call("reserve", newAddr(am[m]).name, region, newAddr(am[m]).address,
                                    o.res, IF o.res = "ok" THEN o.store[name].address ELSE "")),
              NilAddr, o.res)

\* ensureAddressReservation: svc.GetRegionAddress(newAddr.Name, am.region)
Refetch(m) ==
    /\ pc[m] = "refetch"
    /\ \E o \in GetAnswers(GetRegionAddress(store, newAddr(am[m]).name, region)) :
         Step(m, "HoldAddress", FALSE, ensureAddressReservationGet(o), o, store,
              Append(calls[m], Call("get", newAddr(am[m]).name, region, "", o.res, o.rec.address)),
              NilAddr, "")

\* ensureAddressReservation: svc.GetRegionAddressByIP(am.region, am.targetIP)
GetByIP(m) ==
    /\ pc[m] = "getbyip"
    /\ \E o \in GetAnswers(GetRegionAddressByIP(store, region, am[m].targetIP)) :
         Step(m, "HoldAddress", FALSE, ensureAddressReservationByIP(am[m], o), o, store,
              Append(calls[m], Call("getbyip", o.rec.name, region, am[m].targetIP, o.res, o.rec.address)),
              NilAddr, "")

\* ReleaseAddress
ReleaseAddress(m) ==
    /\ CanStart(m)
    /\ IF ~tryRelease[m]
       THEN Step(m, "ReleaseAddress", TRUE, ReturnErr(NilErr), NoAnswer, store, <<>>, NilAddr, "")
       ELSE \E o \in MutAnswers(DeleteRegionAddress(store, name, region), {"other"}) :
            Step(m, "ReleaseAddress", TRUE, ReleaseAddressDelete(o.res), o, o.store,
                 <<Call("delete", name, region, "", o.res, "")>>, NilAddr, "")

\* TearDownAddressIPIfNetworkTierMismatch: the call and its lookup by IP
TearDownAddressIPIfNetworkTierMismatch(m) ==
    /\ CanStart(m)
    /\ IF am[m].targetIP = ""
       THEN Step(m, "TearDown", TRUE, ReturnErr(NilErr), NoAnswer, store, <<>>, NilAddr, "")
       ELSE \E o \in GetAnswers(GetRegionAddressByIP(store, region, am[m].targetIP)) :
            Step(m, "TearDown", TRUE, TearDownGet(am[m], o), o, store,
                 <<Call("getbyip", o.rec.name, region, am[m].targetIP, o.res, o.rec.address)>>,
                 o.rec, "")

\* TearDownAddressIPIfNetworkTierMismatch: svc.DeleteRegionAddress(addr.Name, am.targetIP)
TearDownDeleteStep(m) ==
    /\ pc[m] = "teardown_delete"
    /\ \E o \in MutAnswers(DeleteRegionAddress(store, addr[m].name, TearDownDeleteRegion(am[m])), {"other"}) :
         Step(m, "TearDown", FALSE, TearDownDelete(o.res), o, o.store,
              Append(calls[m], Call("delete", addr[m].name, TearDownDeleteRegion(am[m]), "", o.res, "")),
              NilAddr, "")

\* another actor reserves an address under any name
UserReserve ==
    /\ userActs < MaxUserActs
    /\ \E a \in Addresses :
         /\ store[a.name] = NilAddr
         /\ HolderOf(store, a.address) = {}
         /\ store' = [store EXCEPT ![a.name] = a]
    /\ userActs' = userActs + 1
    /\ base' = [x \in Managers |-> NoBase]
    /\ UNCHANGED <<am, tryRelease, pc, op, addr, reserveErr, ret, calls, ops, faults,
                   unmanagedSeen, vrec, verr>>

\* another actor deletes an address
UserDelete ==
    /\ userActs < MaxUserActs
    /\ \E n \in Names :
         /\ store[n] # NilAddr
         /\ store' = [store EXCEPT ![n] = NilAddr]
    /\ userActs' = userActs + 1
    /\ base' = [x \in Managers |-> NoBase]
    /\ UNCHANGED <<am, tryRelease, pc, op, addr, reserveErr, ret, calls, ops, faults,
                   unmanagedSeen, vrec, verr>>

\* newAddressManager: every instance is constructed with the same desired
\* spec (replicas reconcile the same load balancer) and tryRelease true
NewManagers(budget) ==
    /\ am \in {[m \in Managers |-> a] : a \in AddressManagers}
    /\ tryRelease = [m \in Managers |-> TRUE]
    /\ pc = [m \in Managers |-> "idle"]
    /\ op = [m \in Managers |-> "none"]
    /\ addr = [m \in Managers |-> NilAddr]
    /\ reserveErr = [m \in Managers |-> ""]
    /\ ret = [m \in Managers |-> NoRet]
    /\ calls = [m \in Managers |-> <<>>]
    /\ ops = budget
    /\ unmanagedSeen = [m \in Managers |-> FALSE]
    /\ base = [m \in Managers |-> NoBase]

\* one manager against any store of the region, other actors and faults
Init ==
    /\ store \in Stores
    /\ NewManagers([m \in Managers |-> IF m = 1 THEN MaxOps ELSE 0])
    /\ userActs = 0 /\ faults = 0
    /\ vrec = NilAddr /\ verr = NilErr

ManagerStep(m) ==
    \/ HoldAddress(m)
    \/ HoldDelete(m)
    \/ Reserve(m)
    \/ Refetch(m)
    \/ GetByIP(m)
    \/ ReleaseAddress(m)
    \/ TearDownAddressIPIfNetworkTierMismatch(m)
    \/ TearDownDeleteStep(m)

Next ==
    \/ \E m \in Managers : ManagerStep(m)
    \/ UserReserve
    \/ UserDelete

Spec == Init /\ [][Next]_vars

\* two replicas run concurrently against any store of the region
InitRace ==
    /\ store \in Stores
    /\ NewManagers([m \in Managers |-> MaxRaceOps])
    /\ userActs = MaxUserActs /\ faults = 0
    /\ vrec = NilAddr /\ verr = NilErr

NextRace == \E m \in Managers : ManagerStep(m)

SpecRace == InitRace /\ [][NextRace]_vars

\* reconciliation after the other actors have stopped and the service answers
\* as the store dictates: the owning controller calls HoldAddress again on
\* every sync, without end, and a started pass runs to its return
Resync ==
    /\ pc[1] = "idle" /\ ops[1] = 0
    /\ ops' = [ops EXCEPT ![1] = 1]
    /\ UNCHANGED <<store, am, tryRelease, pc, op, addr, reserveErr, ret, calls,
                   userActs, faults, unmanagedSeen, base, vrec, verr>>

InitLive ==
    /\ store \in Stores
    /\ NewManagers([m \in Managers |-> 0])
    /\ userActs = MaxUserActs /\ faults = MaxFaults
    /\ vrec = NilAddr /\ verr = NilErr

NextLive ==
    \/ Resync
    \/ HoldAddress(1)
    \/ HoldDelete(1)
    \/ Reserve(1)
    \/ Refetch(1)
    \/ GetByIP(1)

SpecLive == InitLive /\ [][NextLive]_vars /\ WF_vars(NextLive)

\* validateAddress on its own: any desired spec against any record
Unset == [kind |-> "unset", inner |-> ""]

InitValidate ==
    /\ store = [n \in Names |-> NilAddr]
    /\ NewManagers([m \in Managers |-> 0])
    /\ userActs = 0 /\ faults = 0
    /\ vrec \in Addresses /\ verr = Unset

Validate ==
    /\ verr = Unset
    /\ verr' = validateAddress(am[1], vrec)
    /\ UNCHANGED <<store, am, tryRelease, pc, op, addr, reserveErr, ret, calls,
                   ops, userActs, faults, unmanagedSeen, base, vrec>>

NextValidate == Validate

SpecValidate == InitValidate /\ [][NextValidate]_vars

TypeOK ==
    /\ store \in Stores
    /\ \A m \in Managers : Len(calls[m]) <= 4

\* ------------------------------------------------------------- properties
\* manager m has returned from operation o and has started nothing since
Finished(m, o) == pc[m] = "idle" /\ op[m] = o
\* the calls of verb v in the call list of manager m
CallsOf(m, v) == {i \in 1..Len(calls[m]) : calls[m][i].verb = v}

\* C1: once a HoldAddress of a manager has returned IPAddrUnmanaged, every
\* ReleaseAddress that manager returns from has returned nil and has issued
\* no remote call, whatever the store holds.
C1_ReleaseAfterUnmanaged ==
    \A m \in Managers :
        unmanagedSeen[m] /\ Finished(m, "ReleaseAddress")
            => calls[m] = <<>> /\ ret[m].err = NilErr

\* a ReleaseAddress has returned after an Unmanaged HoldAddress, while the
\* store still holds a record under the manager's name
C1_Witness ==
    \E m \in Managers :
        /\ unmanagedSeen[m] /\ Finished(m, "ReleaseAddress")
        /\ store[name] # NilAddr /\ store[userName] # NilAddr

\* C2: every delete call a manager issues, in any operation, names the
\* manager's configured name; no record of another name is its target.
C2_DeletesOnlyOwnName ==
    \A m \in Managers : \A i \in CallsOf(m, "delete") : calls[m][i].name = name

\* a TearDown has issued its delete while a user's record was in the store
C2_Witness ==
    /\ store[userName] # NilAddr
    /\ \E m \in Managers : Finished(m, "TearDown") /\ CallsOf(m, "delete") # {}

\* C3: every delete call a manager issues passes the manager's configured
\* region as the region argument.
C3_DeletesInConfiguredRegion ==
    \A m \in Managers : \A i \in CallsOf(m, "delete") : calls[m][i].region = region

\* C4: a HoldAddress that follows a successful HoldAddress of the same
\* manager, with no other operation, no other actor and no injected error in
\* between or during it, returns the same address and classification and
\* issues neither a delete nor a reserve call.
Returns(m, o) ==
    /\ pc'[m] = "idle" /\ op'[m] = o
    /\ (pc[m] # "idle" \/ ops'[m] # ops[m])
HasBase(m) == base[m].type \in {IPAddrManaged, IPAddrUnmanaged}
C4_AcquireIdempotent ==
    [][\A m \in Managers :
         Returns(m, "HoldAddress") /\ HasBase(m) /\ faults' = faults
            => /\ ret'[m].address = base[m].address
               /\ ret'[m].type = base[m].type
               /\ \A i \in 1..Len(calls'[m]) : calls'[m][i].verb \notin {"delete", "reserve"}]_vars

\* C5 as stated: the delete of a HoldAddress never removes a record that, when
\* the delete takes effect, satisfies the deleting manager's desired spec.
C5_NoValidRecordDeleted ==
    [][\A m \in Managers :
         pc[m] = "hold_delete" /\ pc'[m] # "hold_delete" /\ store'[name] # store[name]
            => validateAddress(am[m], store[name]) # NilErr]_vars

\* C5: a manager is about to delete in HoldAddress only with a record that
\* this invocation read by name, as its one call so far, and that failed the
\* validation against the manager's desired spec.
C5_DeleteFollowsFailedValidation ==
    \A m \in Managers :
        pc[m] = "hold_delete"
            => /\ addr[m] # NilAddr /\ addr[m].name = name
               /\ validateAddress(am[m], addr[m]) # NilErr
               /\ Len(calls[m]) = 1 /\ calls[m][1].verb = "get" /\ calls[m][1].res = "ok"
               /\ calls[m][1].address = addr[m].address

\* a manager is about to delete on a stale read: the record now under its
\* name is another one, and that one satisfies its desired spec
C5_Witness ==
    \E m \in Managers :
        /\ pc[m] = "hold_delete"
        /\ store[name] # NilAddr /\ store[name] # addr[m]
        /\ validateAddress(am[m], store[name]) = NilErr

\* C6: once the other actors have stopped and calls fail only as the store
\* dictates, repeated HoldAddress passes reach a point from which on, whenever
\* the target IP is empty, free or held by a record valid against the
\* desired spec, the last return is one and the same address with
\* IPAddrManaged or IPAddrUnmanaged and no pass issues a delete or a reserve.
TargetUsable ==
    \/ am[1].targetIP = ""
    \/ \A n \in HolderOf(store, am[1].targetIP) : validateAddress(am[1], store[n]) = NilErr
Settled(a, t) ==
    /\ ret[1].address = a /\ ret[1].type = t
    /\ \A i \in 1..Len(calls[1]) : calls[1][i].verb \notin {"delete", "reserve"}
C6_Converges ==
    \E a \in IPs, t \in {IPAddrManaged, IPAddrUnmanaged} :
        <>[](TargetUsable => Settled(a, t))

\* C7 as stated: an operation that returned nil has issued no remote call
\* that failed with an error other than not-found.
Done(m) == pc[m] = "idle" /\ op[m] # "none"
Failed(c) == c.res \notin {"ok", "notfound"}
C7_NoErrorSwallowed ==
    \A m \in Managers :
        Done(m) /\ ret[m].err = NilErr
            => \A i \in 1..Len(calls[m]) : ~Failed(calls[m][i])

\* C7: an operation that returned nil has issued no remote call that failed
\* with an error other than not-found, except the reserve of a HoldAddress
\* with a target IP that failed with conflict or bad-request (resolved by
\* the lookup by IP) and the delete of TearDownAddressIPIfNetworkTierMismatch.
C7_ErrorsReturnedButTwo ==
    \A m \in Managers :
        Done(m) /\ ret[m].err = NilErr
            => \A i \in 1..Len(calls[m]) :
                 \/ ~Failed(calls[m][i])
                 \/ /\ op[m] = "HoldAddress" /\ calls[m][i].verb = "reserve"
                    /\ calls[m][i].res \in {"conflict", "badrequest"}
                    /\ am[m].targetIP # ""
                 \/ op[m] = "TearDown" /\ calls[m][i].verb = "delete"

\* a HoldAddress has returned the error of its failed delete
C7_Witness ==
    \E m \in Managers :
        /\ Finished(m, "HoldAddress") /\ Len(calls[m]) = 2
        /\ calls[m][2].verb = "delete" /\ calls[m][2].res = "other"
        /\ ret[m].err = Err("other")

\* C8 as stated: no operation returns an error that is, or wraps nothing but,
\* the not-found answer of a remote call.
NotFoundErr(e) == e.kind = "notfound" \/ e.inner = "notfound"
C8_NotFoundNeverSurfaced ==
    \A m \in Managers : Done(m) => ~NotFoundErr(ret[m].err)

\* C8: a not-found answer is swallowed by the first lookup by name and the
\* delete of HoldAddress (which go on to reserve), by the delete of
\* ReleaseAddress and by the lookup and the delete of TearDown (which return
\* nil); a not-found answer to the lookup by name after an auto-assigned
\* reservation, or to the lookup by IP after a reservation conflict, makes
\* HoldAddress return IPAddrUndefined with an error.
LastCall(m) == calls[m][Len(calls[m])]
C8_NotFoundSwallowedButTwo ==
    \A m \in Managers :
        Done(m) /\ calls[m] # <<>> /\ LastCall(m).res = "notfound"
            => /\ op[m] \in {"ReleaseAddress", "TearDown"} => ret[m].err = NilErr
               /\ op[m] = "HoldAddress"
                    => /\ Len(calls[m]) >= 2
                       /\ calls[m][Len(calls[m]) - 1].verb = "reserve"
                       /\ LastCall(m).verb \in {"get", "getbyip"}
                       /\ ret[m].type = IPAddrUndefined
                       /\ ret[m].err = IF LastCall(m).verb = "get"
                                      THEN Err("notfound")
                                      ELSE Wrap("GetByIPFailed", "notfound")
               /\ NotFoundErr(ret[m].err) => op[m] = "HoldAddress"

\* a not-found delete was swallowed: ReleaseAddress returned nil after it
C8_Witness ==
    \E m \in Managers :
        /\ Finished(m, "ReleaseAddress") /\ calls[m] # <<>>
        /\ LastCall(m).res = "notfound" /\ ret[m].err = NilErr

\* C9: a HoldAddress returns IPAddrUndefined exactly with a non-nil error,
\* and then the empty address; with IPAddrManaged or IPAddrUnmanaged it
\* returns the address of a record one of its calls read or reserved.
C9_AcquireResult ==
    \A m \in Managers :
        Finished(m, "HoldAddress")
            => /\ ret[m].type \in {IPAddrUndefined, IPAddrManaged, IPAddrUnmanaged}
               /\ ret[m].type = IPAddrUndefined <=> ret[m].err # NilErr
               /\ ret[m].type = IPAddrUndefined => ret[m].address = ""
               /\ ret[m].type # IPAddrUndefined
                    => /\ ret[m].address \in IPs
                       /\ \E i \in 1..Len(calls[m]) :
                            calls[m][i].res = "ok" /\ calls[m][i].address = ret[m].address

\* a HoldAddress has returned an auto-assigned address as IPAddrManaged
C9_Witness ==
    \E m \in Managers :
        /\ Finished(m, "HoldAddress") /\ am[m].targetIP = ""
        /\ ret[m].type = IPAddrManaged /\ Len(calls[m]) = 3

\* C10: validateAddress accepts a record exactly when the target IP is unset
\* or equals the record's address, the record's address type is the desired
\* scheme and the record's tier is the remote value of the desired tier; a
\* mismatch of the tier alone gives the typed network-tier error.
IPMatches == am[1].targetIP = "" \/ am[1].targetIP = vrec.address
SchemeMatches == vrec.addressType = am[1].addressType
TierMatches ==
    \/ am[1].networkTier = NetworkTierPremium /\ vrec.networkTier = "PREMIUM"
    \/ am[1].networkTier = NetworkTierStandard /\ vrec.networkTier = "STANDARD"
C10_ValidationCompleteness ==
    verr # Unset
        => /\ verr = NilErr <=> IPMatches /\ SchemeMatches /\ TierMatches
           /\ IPMatches /\ SchemeMatches /\ ~TierMatches => verr = Err("NetworkTierErr")

\* a record that differs from the desired spec in its tier only was rejected
C10_Witness ==
    /\ verr = Err("NetworkTierErr")
    /\ am[1].targetIP = vrec.address /\ SchemeMatches /\ ~TierMatches

\* the HoldAddress of manager m has returned from its lookup by IP, which
\* followed a reserve that failed with one of kinds and found a record
AfterByIP(m, kinds) ==
    /\ Finished(m, "HoldAddress") /\ Len(calls[m]) >= 2
    /\ calls[m][Len(calls[m]) - 1].verb = "reserve"
    /\ calls[m][Len(calls[m]) - 1].res \in kinds
    /\ am[m].targetIP # ""
    /\ LastCall(m).verb = "getbyip" /\ LastCall(m).res = "ok"
\* manager m takes the step that ends its lookup by IP with a record found
ByIPReturns(m) ==
    /\ pc[m] = "getbyip" /\ pc'[m] = "idle"
    /\ LastCall(m)'.verb = "getbyip" /\ LastCall(m)'.res = "ok"
\* the record that lookup reads
FoundByIP(m) == GetRegionAddressByIP(store, region, am[m].targetIP).rec

\* C11 as stated: a HoldAddress whose reserve failed with conflict for a
\* non-empty target IP and whose lookup by IP found a record with the
\* manager's name has returned IPAddrManaged and has issued no delete.
C11_SelfConflictIsManaged ==
    \A m \in Managers :
        AfterByIP(m, {"conflict"}) /\ LastCall(m).name = name
            => ret[m].type = IPAddrManaged /\ CallsOf(m, "delete") = {}

\* C11: when the reserve of a HoldAddress failed with conflict for a
\* non-empty target IP and the lookup by IP finds a record with the manager's
\* name, HoldAddress returns that record's address with IPAddrManaged if the
\* record passes validateAddress and IPAddrUndefined with an error if not;
\* either way it keeps tryRelease, leaves the store alone and has issued no
\* delete after the failed reserve.
C11_SelfConflictValidated ==
    [][\A m \in Managers :
         ByIPReturns(m) /\ reserveErr[m] = "conflict" /\ FoundByIP(m).name = name
             => /\ validateAddress(am[m], FoundByIP(m)) = NilErr
                    => ret'[m] = [address |-> FoundByIP(m).address,
                                  type |-> IPAddrManaged, err |-> NilErr]
                /\ validateAddress(am[m], FoundByIP(m)) # NilErr
                    => /\ ret'[m].type = IPAddrUndefined /\ ret'[m].address = ""
                       /\ ret'[m].err =
                            Wrap("ValidationFailed", validateAddress(am[m], FoundByIP(m)).kind)
                /\ tryRelease'[m] = tryRelease[m]
                /\ store' = store
                /\ \A i \in 1..Len(calls'[m]) :
                     calls'[m][i].verb = "delete" => i < Len(calls'[m]) - 1]_vars

\* a HoldAddress has recovered from a conflict with a record of its own name
C11_Witness ==
    \E m \in Managers :
        /\ AfterByIP(m, {"conflict"}) /\ LastCall(m).name = name
        /\ ret[m].type = IPAddrManaged /\ ret[m].address = am[m].targetIP

\* C12 as stated: a HoldAddress whose reserve failed with conflict or
\* bad-request for a non-empty target IP and whose lookup by IP found a
\* record with another name has returned that record's address with
\* IPAddrUnmanaged, and tryRelease is false.
C12_UserConflictIsUnmanaged ==
    \A m \in Managers :
        AfterByIP(m, {"conflict", "badrequest"}) /\ LastCall(m).name # name
            => /\ ret[m].type = IPAddrUnmanaged
               /\ ret[m].address = LastCall(m).address
               /\ ~tryRelease[m]

\* C12: when the reserve of a HoldAddress failed with conflict or bad-request
\* for a non-empty target IP and the lookup by IP finds a record with another
\* name, HoldAddress returns that record's address with IPAddrUnmanaged and
\* clears tryRelease if the record passes validateAddress; if not it returns
\* IPAddrUndefined with the validation error and leaves tryRelease as it was.
C12_UserConflictValidated ==
    [][\A m \in Managers :
         ByIPReturns(m) /\ reserveErr[m] \in {"conflict", "badrequest"}
                        /\ FoundByIP(m).name # name
             => /\ validateAddress(am[m], FoundByIP(m)) = NilErr
                    => /\ ret'[m] = [address |-> FoundByIP(m).address,
                                     type |-> IPAddrUnmanaged, err |-> NilErr]
                       /\ ~tryRelease'[m]
                /\ validateAddress(am[m], FoundByIP(m)) # NilErr
                    => /\ ret'[m].type = IPAddrUndefined /\ ret'[m].address = ""
                       /\ ret'[m].err =
                            Wrap("ValidationFailed", validateAddress(am[m], FoundByIP(m)).kind)
                       /\ tryRelease'[m] = tryRelease[m]]_vars

\* a HoldAddress has handed back a user's address after a bad-request
C12_Witness ==
    \E m \in Managers :
        /\ AfterByIP(m, {"badrequest"}) /\ LastCall(m).name = userName
        /\ ret[m].type = IPAddrUnmanaged /\ ret[m].address = am[m].targetIP
        /\ ~tryRelease[m]

\* C13: a HoldAddress issues a lookup by IP only right after a reserve that
\* failed with conflict or bad-request while the target IP is non-empty; a
\* reserve that failed in any other way (tier mismatch, another error, or
\* conflict or bad-request with an empty target IP) is the last call of the
\* HoldAddress, which returns IPAddrUndefined with a non-nil error, the typed
\* network-tier error after a tier mismatch.
ResolvableConflict(m, c) == c.res \in {"conflict", "badrequest"} /\ am[m].targetIP # ""
C13_LookupByIPOnlyAfterConflict ==
    \A m \in Managers :
        op[m] = "HoldAddress"
            => \A i \in 1..Len(calls[m]) :
                 /\ calls[m][i].verb = "getbyip"
                      => /\ i > 1 /\ calls[m][i - 1].verb = "reserve"
                         /\ ResolvableConflict(m, calls[m][i - 1])
                 /\ calls[m][i].verb = "reserve" /\ calls[m][i].res # "ok"
                                                 /\ ~ResolvableConflict(m, calls[m][i])
                      => /\ i = Len(calls[m]) /\ pc[m] = "idle"
                         /\ ret[m].type = IPAddrUndefined /\ ret[m].address = ""
                         /\ ret[m].err # NilErr
                         /\ calls[m][i].res = "tiermismatch" => ret[m].err = Err("NetworkTierErr")
                 /\ calls[m][i].verb = "reserve" /\ ResolvableConflict(m, calls[m][i])
                      => \/ i = Len(calls[m]) /\ pc[m] = "getbyip"
                         \/ i = Len(calls[m]) - 1 /\ LastCall(m).verb = "getbyip"

\* a HoldAddress has returned the typed error of a reserve that failed with a
\* network tier mismatch, without a further call
C13_Witness ==
    \E m \in Managers :
        /\ Finished(m, "HoldAddress") /\ calls[m] # <<>>
        /\ LastCall(m).verb = "reserve" /\ LastCall(m).res = "tiermismatch"
        /\ am[m].targetIP # ""
        /\ ret[m].type = IPAddrUndefined /\ ret[m].err = Err("NetworkTierErr")

\* C14: a HoldAddress with an empty target IP whose reserve succeeded issues
\* exactly one more call, a lookup by the manager's name; it returns the
\* address that lookup read with IPAddrManaged, or IPAddrUndefined with the
\* lookup's error when the lookup failed, and issues no delete after the
\* reserve. No other HoldAddress looks up by name after its reserve.
AutoAssigned(m, c) == c.verb = "reserve" /\ c.res = "ok" /\ am[m].targetIP = ""
C14_AutoAssignRefetch ==
    \A m \in Managers :
        op[m] = "HoldAddress"
            => \A i \in 1..Len(calls[m]) :
                 /\ AutoAssigned(m, calls[m][i])
                      => \/ i = Len(calls[m]) /\ pc[m] = "refetch"
                         \/ /\ i = Len(calls[m]) - 1 /\ pc[m] = "idle"
                            /\ LastCall(m).verb = "get" /\ LastCall(m).name = name
                            /\ LastCall(m).region = region
                            /\ ret[m] = IF LastCall(m).res = "ok"
                                        THEN [address |-> LastCall(m).address,
                                              type |-> IPAddrManaged, err |-> NilErr]
                                        ELSE [address |-> "", type |-> IPAddrUndefined,
                                              err |-> Err(LastCall(m).res)]
                 /\ calls[m][i].verb = "get" /\ i > 1 => AutoAssigned(m, calls[m][i - 1])
                 /\ calls[m][i].verb = "reserve" /\ calls[m][i].res = "ok"
                                                 /\ am[m].targetIP # ""
                      => i = Len(calls[m]) /\ pc[m] = "idle"

\* the lookup after an auto-assigned reservation failed: HoldAddress has
\* returned its error and the reserved record is still in the store
C14_Witness ==
    \E m \in Managers :
        /\ Finished(m, "HoldAddress") /\ Len(calls[m]) >= 2
        /\ AutoAssigned(m, calls[m][Len(calls[m]) - 1])
        /\ LastCall(m).verb = "get" /\ LastCall(m).res = "other"
        /\ ret[m].type = IPAddrUndefined /\ ret[m].err = Err("other")
        /\ store[name] # NilAddr

\* C15: a ReleaseAddress that starts with tryRelease true issues exactly one
\* call, a delete of the manager's name in its region, and returns nil when
\* the delete succeeded or answered not-found and the delete's error when it
\* failed otherwise; no ReleaseAddress changes tryRelease.
C15_ReleaseDeletesOnce ==
    [][\A m \in Managers :
         Returns(m, "ReleaseAddress")
             => /\ tryRelease'[m] = tryRelease[m]
                /\ tryRelease[m]
                     => /\ Len(calls'[m]) = 1
                        /\ calls'[m][1].verb = "delete"
                        /\ calls'[m][1].name = name /\ calls'[m][1].region = region
                        /\ ret'[m].err = IF calls'[m][1].res \in {"ok", "notfound"}
                                         THEN NilErr ELSE Err(calls'[m][1].res)]_vars

\* a ReleaseAddress has returned the error of its one failed delete and may
\* be called again
C15_Witness ==
    \E m \in Managers :
        /\ Finished(m, "ReleaseAddress") /\ tryRelease[m]
        /\ Len(calls[m]) = 1 /\ calls[m][1].verb = "delete" /\ calls[m][1].res = "other"
        /\ ret[m].err = Err("other")

\* C16: TearDownAddressIPIfNetworkTierMismatch issues no call when the target
\* IP is empty; otherwise it looks up by IP once and returns that lookup's
\* error unless it is not-found, the typed network-tier error without a
\* delete when the record found has another tier than desired and another
\* name than the manager's, and nil in every other case, after one delete of
\* the record when it has another tier and the manager's name, whatever that
\* delete answered.
TearDownStarts(m) == op'[m] = "TearDown" /\ ops'[m] # ops[m]
TierDiffers(m, rec) == rec.networkTier # ToGCEValue(am[m].networkTier)
C16_TearDownErrors ==
    [][\A m \in Managers :
         /\ TearDownStarts(m) /\ am[m].targetIP = ""
              => calls'[m] = <<>> /\ pc'[m] = "idle" /\ ret'[m].err = NilErr
         /\ TearDownStarts(m) /\ am[m].targetIP # ""
              => /\ Len(calls'[m]) = 1 /\ calls'[m][1].verb = "getbyip"
                 /\ store' = store
                 /\ IF calls'[m][1].res \notin {"ok", "notfound"}
                    THEN pc'[m] = "idle" /\ ret'[m].err = Err(calls'[m][1].res)
                    ELSE IF calls'[m][1].res = "ok" /\ TierDiffers(m, FoundByIP(m))
                    THEN IF FoundByIP(m).name # name
                         THEN pc'[m] = "idle" /\ ret'[m].err = Err("NetworkTierErr")
                         ELSE pc'[m] = "teardown_delete"
                    ELSE pc'[m] = "idle" /\ ret'[m].err = NilErr
         /\ pc[m] = "teardown_delete" /\ pc'[m] # "teardown_delete"
              => /\ pc'[m] = "idle" /\ ret'[m].err = NilErr
                 /\ Len(calls'[m]) = 2 /\ calls'[m][2].verb = "delete"
                 /\ calls'[m][2].name = name]_vars

\* the delete of the manager's own mismatching record failed and
\* TearDownAddressIPIfNetworkTierMismatch has returned nil all the same
C16_Witness ==
    \E m \in Managers :
        /\ Finished(m, "TearDown") /\ Len(calls[m]) = 2
        /\ calls[m][1].name = name
        /\ calls[m][2].verb = "delete" /\ calls[m][2].res # "ok"
        /\ ret[m].err = NilErr

\* C17: a HoldAddress that finds a record by name returns its address with
\* IPAddrManaged after that one call when the record passes validateAddress,
\* and otherwise deletes it by name as its second call; after a delete that
\* succeeded or answered not-found it goes on to reserve, after any other
\* failure it returns IPAddrUndefined with that error and does not reserve.
\* No HoldAddress issues another delete, and none after a reserve.
HoldStarts(m) == op'[m] = "HoldAddress" /\ ops'[m] # ops[m]
C17_InvalidRecordReplaced ==
    [][\A m \in Managers :
         /\ HoldStarts(m) /\ calls'[m][1].res = "ok"
              => IF validateAddress(am[m], store[name]) = NilErr
                 THEN /\ pc'[m] = "idle" /\ Len(calls'[m]) = 1
                      /\ ret'[m] = [address |-> store[name].address,
                                    type |-> IPAddrManaged, err |-> NilErr]
                 ELSE pc'[m] = "hold_delete" /\ store' = store
         /\ pc[m] = "hold_delete" /\ pc'[m] # "hold_delete"
              => /\ Len(calls'[m]) = 2 /\ calls'[m][2].verb = "delete"
                 /\ calls'[m][2].name = name /\ calls'[m][2].region = region
                 /\ IF calls'[m][2].res \in {"ok", "notfound"}
                    THEN pc'[m] = "reserve"
                    ELSE /\ pc'[m] = "idle"
                         /\ ret'[m] = [address |-> "", type |-> IPAddrUndefined,
                                       err |-> Err(calls'[m][2].res)]
         /\ op'[m] = "HoldAddress"
              => \A i \in 1..Len(calls'[m]) :
                   /\ calls'[m][i].verb = "delete" => i = 2 /\ calls'[m][1].res = "ok"
                   /\ calls'[m][i].verb = "reserve"
                        => i = IF calls'[m][1].res = "ok" THEN 3 ELSE 2]_vars

\* the record a HoldAddress meant to delete was gone already; it went on to
\* reserve
C17_Witness ==
    \E m \in Managers :
        /\ Finished(m, "HoldAddress") /\ Len(calls[m]) >= 3
        /\ calls[m][2].verb = "delete" /\ calls[m][2].res = "notfound"
        /\ calls[m][3].verb = "reserve"

\* C18: for a manager of the internal scheme, the outcome of validateAddress
\* on the records of the store, the decision HoldAddress takes after its
\* lookup by name and the decision TearDownAddressIPIfNetworkTierMismatch
\* takes after its lookup by IP are the same as for a manager that differs
\* in the desired network tier only.
Twin(a) ==
    [a EXCEPT !.networkTier = IF @ = NetworkTierPremium
                              THEN NetworkTierStandard ELSE NetworkTierPremium]
C18_TierOnlyForExternal ==
    \A m \in Managers :
        am[m].addressType = SchemeInternal
            => /\ \A n \in Names :
                    store[n] # NilAddr
                        => validateAddress(am[m], store[n]) = validateAddress(Twin(am[m]), store[n])
               /\ HoldAddressGet(am[m], GetRegionAddress(store, name, region))
                    = HoldAddressGet(Twin(am[m]), GetRegionAddress(store, name, region))
               /\ TearDownGet(am[m], GetRegionAddressByIP(store, region, am[m].targetIP))
                    = TearDownGet(Twin(am[m]), GetRegionAddressByIP(store, region, am[m].targetIP))

\* C19: tryRelease is true from construction until a HoldAddress of the
\* manager returns IPAddrUnmanaged, and false ever after: it changes only
\* from true to false and only in the step in which a HoldAddress returns
\* IPAddrUnmanaged. After that, every ReleaseAddress of the manager returns
\* nil without a call and leaves the store alone, also when a later
\* HoldAddress has returned IPAddrManaged for a record the manager reserved.
C19_ReleaseFlagMonotone ==
    [][\A m \in Managers :
         /\ tryRelease'[m] => tryRelease[m]
         /\ tryRelease'[m] # tryRelease[m]
              => Returns(m, "HoldAddress") /\ ret'[m].type = IPAddrUnmanaged
         /\ Returns(m, "HoldAddress") /\ ret'[m].type = IPAddrUnmanaged => ~tryRelease'[m]
         /\ tryRelease[m] <=> ~unmanagedSeen[m]
         /\ tryRelease'[m] <=> ~unmanagedSeen'[m]
         /\ Returns(m, "ReleaseAddress") /\ unmanagedSeen[m]
              => calls'[m] = <<>> /\ ret'[m].err = NilErr /\ store' = store]_vars

\* after a HoldAddress returned IPAddrUnmanaged, a later one has reserved the
\* address itself and returned IPAddrManaged; tryRelease is still false
C19_Witness ==
    \E m \in Managers :
        /\ Finished(m, "HoldAddress") /\ ret[m].type = IPAddrManaged
        /\ \E i \in CallsOf(m, "reserve") : calls[m][i].res = "ok"
        /\ store[name] # NilAddr
        /\ unmanagedSeen[m] /\ ~tryRelease[m]

\* C20: a HoldAddress of a manager with a non-empty target IP that returns
\* IPAddrManaged or IPAddrUnmanaged returns the target IP, whether it found a
\* valid record by name, reserved the address or found the record by IP; a
\* manager with an empty target IP never gets IPAddrUnmanaged.
C20_ReturnsTargetIP ==
    \A m \in Managers :
        Finished(m, "HoldAddress")
            => /\ am[m].targetIP # "" /\ ret[m].type \in {IPAddrManaged, IPAddrUnmanaged}
                    => ret[m].address = am[m].targetIP
               /\ ret[m].type = IPAddrUnmanaged
                    => am[m].targetIP # "" /\ LastCall(m).verb = "getbyip"

\* a HoldAddress has returned the target IP on finding a valid record under
\* its name while another address is reserved as well
C20_Witness ==
    \E m \in Managers :
        /\ Finished(m, "HoldAddress") /\ Len(calls[m]) = 1
        /\ am[m].targetIP # "" /\ store[userName] # NilAddr
        /\ ret[m].type = IPAddrManaged /\ ret[m].address = am[m].targetIP

====
